---- MODULE Spec2Model ----
(***************************************************************************)
(* GeoLaTeX: the analysis / verification / correction pipeline.            *)
(*                                                                         *)
(* The orchestrators (handleStartAnalysis of the current App, and          *)
(* handleImageUpload of src/App.tsx) are modelled as state machines with   *)
(* one action per resumption of the async handler: every `await` of the    *)
(* source is a suspension point, and the action that resumes the handler   *)
(* runs it up to the next `await` (or to its end).                         *)
(*                                                                         *)
(* Texts (error messages, compiler logs) are sequences of fragments; a     *)
(* fragment is a TLA+ string, and String.includes is decided per fragment  *)
(* by the table Phrases / PhrasesCS below.                                 *)
(***************************************************************************)
EXTENDS Integers, Sequences, FiniteSets, TLC

VARIABLES
    \* ---- React state of App (useState) ----
    step,             \* ProcessingStep
    error,            \* string | null
    isPreprocessing,  \* boolean
    analysisResult,   \* AnalysisSuccessResult | null
    latexResult,      \* LatexResult | null
    croppedImage,     \* string | null
    originalFile,     \* File | null
    \* ---- locals of the running async handler ----
    pc,               \* the await the handler is suspended at, "idle" if none runs
    img,              \* preprocessedBase64 (its pixel size)
    analysis,         \* const analysis
    validatedBox,     \* const validatedBox
    initialResult,    \* const initialResult
    currentLatexCode, \* let currentLatexCode
    verificationResult, \* let verificationResult
    attempt,          \* loop counter
    \* ---- the build: which snapshot of each service is linked ----
    compilerVariant,  \* 1: rtex/JSON verifyLatex, 2: latexonline/PDF verifyLatex
    errorVariant,     \* 1: errorService.ts, 2: the later getFriendlyErrorMessage
    \* ---- history of the current run (observation only) ----
    calls,            \* number of calls of each collaborator in this run
    failedVerifs,     \* verifications of this run that did not succeed
    lastVerify,       \* how the last verifyLatex ended: none/compiled/failed/threw
    submitted,        \* the code handed to the last verifyLatex call
    lastOutput,       \* the artifact the generator or corrector produced last
    fixArgs,          \* arguments of the pending fixLatex call
    cropBox,          \* the box cropImage was last called with
    genArg,           \* the figure generateLatex was last called with
    \* ---- pure-function harness ----
    fnIn, fnOut

orchVars == <<step, error, isPreprocessing, analysisResult, latexResult,
              croppedImage, originalFile>>
localVars == <<pc, img, analysis, validatedBox, initialResult, currentLatexCode,
               verificationResult, attempt>>
buildVars == <<compilerVariant, errorVariant>>
histVars == <<calls, failedVerifs, lastVerify, submitted, lastOutput, fixArgs, cropBox,
             genArg>>
fnVars == <<fnIn, fnOut>>
vars == <<orchVars, localVars, buildVars, histVars, fnVars>>

-----------------------------------------------------------------------------
\* Bounds of the model

NumFiles == 2      \* distinct image files the user may select
NumCodes == 2      \* distinct LaTeX documents the generation capability may emit
MaxCoord == 2      \* box coordinates range over -MaxCoord .. MaxCoord + 1
MaxImg == 2        \* image sides range over 1 .. MaxImg

-----------------------------------------------------------------------------
\* null / undefined: a nullable value is the empty set or a singleton

Null == {}
Some(v) == {v}
Get(n) == CHOOSE v \in n : TRUE

Min(a, b) == IF a <= b THEN a ELSE b
Max(a, b) == IF a >= b THEN a ELSE b

-----------------------------------------------------------------------------
\* Texts

\* Phrases a fragment contains once lower-cased (String.toLowerCase().includes)
Phrases(frag) ==
    CASE frag = "No geometric figure could be identified in the image. Please try a clearer image."
            -> {"no geometric figure", "no geometric figure could be identified"}
      [] frag = "No geometric figure could be identified in the image. Please try a different or clearer image."
            -> {"no geometric figure", "no geometric figure could be identified"}
      [] frag = "Could not parse the JSON response from the AI."
            -> {"could not parse the json response"}
      [] frag = "Could not parse the JSON response for LaTeX from the AI."
            -> {"could not parse the json response"}
      [] frag = "Failed to fetch" -> {"failed to fetch"}
      [] frag = "NetworkError when attempting to fetch resource." -> {"networkerror"}
      [] frag = "API key not valid. Please pass a valid API key." -> {"api key not valid"}
      [] frag = "Resource has been exhausted (e.g. check quota)." -> {"quota"}
      [] frag = "! Package pgf Error: quota of dimension registers exceeded." -> {"quota"}
      [] OTHER -> {}

\* Phrases a fragment contains literally (String.includes)
PhrasesCS(frag) ==
    CASE frag = "API key not valid. Please pass a valid API key." -> {"API key not valid"}
      [] OTHER -> {}

IncludesLower(text, phrase) == \E i \in 1..Len(text) : phrase \in Phrases(text[i])
IncludesCS(text, phrase) == \E i \in 1..Len(text) : phrase \in PhrasesCS(text[i])

\* text contains part as a contiguous piece
Contains(text, part) ==
    \E i \in 0..(Len(text) - Len(part)) : SubSeq(text, i + 1, i + Len(part)) = part

\* The compiler's diagnostic lines
LogFragments == {"! Undefined control sequence.",
                 "Failed to fetch",
                 "! Package pgf Error: quota of dimension registers exceeded."}
Logs ==
    {<<>>} \cup {<<f>> : f \in LogFragments}
    \cup {<<"! Undefined control sequence.", "l.12 \\draw (A) -- (B) \\foo;">>}

\* JavaScript truthiness of a nullable string
Truthy(s) == s # Null /\ Get(s) # <<>>

\* Messages of the errors the capabilities (Gemini SDK, fetch) reject with
CapabilityErrors == {<<"API key not valid. Please pass a valid API key.">>,
                     <<"Resource has been exhausted (e.g. check quota).">>}
NetworkErrors == {<<"Failed to fetch">>,
                  <<"NetworkError when attempting to fetch resource.">>}

-----------------------------------------------------------------------------
\* services/errorService.ts

\* err is the message of an Error instance (everything the pipeline throws is one)
getFriendlyErrorMessage1(err) ==
    IF IncludesLower(err, "failed to fetch")
    THEN <<"A network error occurred. Please check your internet connection and try again.">>
    ELSE IF IncludesCS(err, "API key not valid")
    THEN <<"Authentication Error: The API key is invalid or missing. Please check your configuration.">>
    ELSE err

getFriendlyErrorMessage2(err) ==
    IF IncludesLower(err, "no geometric figure could be identified")
    THEN <<"No geometric figure could be identified in the image. Please try a different or clearer image.">>
    ELSE IF IncludesLower(err, "could not parse the json response")
    THEN <<"The AI returned an unexpected data format. This can happen with very complex images. Please try again.">>
    ELSE IF IncludesLower(err, "api key not valid") \/ IncludesLower(err, "permission denied")
    THEN <<"Authentication failed. Please ensure the API key is valid and has the necessary permissions.">>
    ELSE IF IncludesLower(err, "quota") \/ IncludesLower(err, "rate limit")
    THEN <<"The request limit has been reached. Please wait a while before trying again.">>
    ELSE IF IncludesLower(err, "failed to fetch") \/ IncludesLower(err, "networkerror")
    THEN <<"Failed to connect to the AI service. Please check your internet connection.">>
    ELSE <<"An unexpected error occurred: ">> \o err

getFriendlyErrorMessage(variant, err) ==
    IF variant = 1 THEN getFriendlyErrorMessage1(err) ELSE getFriendlyErrorMessage2(err)

-----------------------------------------------------------------------------
\* Outcome of a call: it returns a value or throws an Error with a message

Returned(v) == [tag |-> "return", value |-> v, message |-> <<>>]
Threw(msg) == [tag |-> "throw", value |-> Null, message |-> msg]

-----------------------------------------------------------------------------
\* services/imageProcessing.ts: getValidatedBoundingBox

Box(x, y, w, h) == [x |-> x, y |-> y, width |-> w, height |-> h]

\* plausible slips of getValidatedBoundingBox, used to test the properties below
getValidatedBoundingBox_NoReject(box, imgWidth, imgHeight) ==
    LET clampedX == Max(0, box.x)
        clampedY == Max(0, box.y)
    IN Returned(Box(clampedX, clampedY,
                    Min(box.width, imgWidth - clampedX),
                    Min(box.height, imgHeight - clampedY)))

getValidatedBoundingBox_ClampToImage(box, imgWidth, imgHeight) ==
    LET clampedX == Max(0, box.x)
        clampedY == Max(0, box.y)
        clampedWidth == Min(box.width, imgWidth)
        clampedHeight == Min(box.height, imgHeight)
    IN IF clampedWidth <= 0 \/ clampedHeight <= 0
       THEN Threw(<<"The AI failed to provide a valid crop area for the detected geometry.">>)
       ELSE Returned(Box(clampedX, clampedY, clampedWidth, clampedHeight))

getValidatedBoundingBox(box, imgWidth, imgHeight) ==
    LET clampedX == Max(0, box.x)
        clampedY == Max(0, box.y)
        clampedWidth == Min(box.width, imgWidth - clampedX)
        clampedHeight == Min(box.height, imgHeight - clampedY)
    IN IF clampedWidth <= 0 \/ clampedHeight <= 0
       THEN Threw(<<"The AI failed to provide a valid crop area for the detected geometry.">>)
       ELSE Returned(Box(clampedX, clampedY, clampedWidth, clampedHeight))

-----------------------------------------------------------------------------
\* services/latexCompilerService.ts: verifyLatex (both snapshots)

\* What fetch() to the compilation endpoint can produce
Body(type, status, log) == [type |-> type, status |-> status, log |-> log]
Bodies ==
    {Body("pdf", "", Null), Body("html", "", Null)}
    \cup {Body("text", "", Some(l)) : l \in Logs}
    \cup {Body("json", s, l) : s \in {"success", "error", "other"},
                               l \in {Null} \cup {Some(x) : x \in Logs}}
CompilerResponses ==
    {[kind |-> "network", ok |-> FALSE, body |-> Body("", "", Null), message |-> m] :
        m \in NetworkErrors}
    \cup {[kind |-> "http", ok |-> o, body |-> b, message |-> <<>>] :
            o \in BOOLEAN, b \in Bodies}

\* response.text()
BodyText(body) ==
    CASE body.type = "pdf" -> <<"%PDF-1.5">>
      [] body.type = "html" -> <<"<!DOCTYPE html><html>502 Bad Gateway</html>">>
      [] body.type = "text" -> Get(body.log)
      [] OTHER -> <<"{\"status\": \"", body.status, "\", \"log\": \"">>
                    \o (IF body.log = Null THEN <<>> ELSE Get(body.log)) \o <<"\"}">>

Verdict(success, log) == [success |-> success, log |-> log]

\* first snapshot (lines 14-68): rtex, JSON result
verifyLatex1(resp) ==
    IF resp.kind = "network"
    THEN IF IncludesLower(resp.message, "failed to fetch")
         THEN Threw(<<"Failed to connect to the LaTeX compilation service via proxy: ">>
                    \o resp.message)
         ELSE Threw(resp.message)
    ELSE IF ~resp.ok
    THEN Threw(<<"The compilation service returned an error: 502 Bad Gateway">>)
    ELSE IF resp.body.type = "html"
    THEN Threw(<<"The LaTeX verification service is currently unavailable or returned an HTML error page.">>)
    ELSE IF resp.body.type # "json"
    THEN Threw(<<"Unexpected token in JSON at position 0">>)
    ELSE IF resp.body.status = "success"
    THEN Returned(Verdict(TRUE, Null))
    ELSE Returned(Verdict(FALSE, resp.body.log))

\* second snapshot (lines 79-109): latexonline, PDF or text
verifyLatex2(resp) ==
    IF resp.kind = "network"
    THEN Threw(<<"Failed to connect to the LaTeX compilation service: ">> \o resp.message)
    ELSE IF resp.ok /\ resp.body.type = "pdf"
    THEN Returned(Verdict(TRUE, Null))
    ELSE Returned(Verdict(FALSE, Some(BodyText(resp.body))))

verifyLatex(variant, resp) ==
    IF variant = 1 THEN verifyLatex1(resp) ELSE verifyLatex2(resp)

-----------------------------------------------------------------------------
\* The collaborators of the orchestrator, by what they can answer

Files == 1..NumFiles
Codes == 1..NumCodes

\* pixel size of the image preprocessImage produces for a file
ImageSize(f) == [w |-> f + 1, h |-> f + 1]

\* boxes the perception capability may report
PerceptionBoxes ==
    {Box(a, 0, b, 1) : a \in {-MaxCoord, 0, MaxCoord + 1}, b \in {1, MaxCoord + 1}}

\* confidence scores, in tenths
Confidences == {5, 9}

\* types.ts GeometryData, reduced to what names a vertex: the labels of the
\* vertices in order and the (from, to) pair of each line
Figure(vertices, lines) == [vertices |-> vertices, lines |-> lines]
TriangleFigure == Figure(<<"A", "B", "C">>, {<<"A", "B">>, <<"B", "C">>, <<"C", "A">>})
DuplicateLabelFigure == Figure(<<"A", "A", "B">>, {<<"A", "B">>})
DanglingLineFigure == Figure(<<"A", "B">>, {<<"A", "B">>, <<"B", "Z">>})

NotFoundResult ==
    [geometryFound |-> FALSE, boundingBox |-> Null, geometryData |-> Null,
     confidenceScore |-> Null]
FoundResult(box, conf) ==
    [geometryFound |-> TRUE, boundingBox |-> Some(box),
     geometryData |-> Some(TriangleFigure), confidenceScore |-> Some(conf)]

\* payloads the response schema admits (only geometryFound is required, lines
\* 76-86) in which a Found outcome lacks one of its three other fields
IncompleteResults ==
    {[FoundResult(Box(0, 0, 1, 1), 9) EXCEPT !.boundingBox = Null],
     [FoundResult(Box(0, 0, 1, 1), 9) EXCEPT !.geometryData = Null],
     [FoundResult(Box(0, 0, 1, 1), 9) EXCEPT !.confidenceScore = Null]}

\* what generateContent can do: reject with an SDK error, or answer with a text
\* that JSON.parse accepts (yielding payload) or does not
Rejection(m) == [rejected |-> Some(m), parses |-> FALSE, payload |-> NotFoundResult]
Unparseable == [rejected |-> Null, parses |-> FALSE, payload |-> NotFoundResult]
Answer(p) == [rejected |-> Null, parses |-> TRUE, payload |-> p]

\* the responses the orchestrator's runs are driven with
PerceptionResponses ==
    {Answer(NotFoundResult), Unparseable}
    \cup {Answer(FoundResult(b, c)) : b \in PerceptionBoxes, c \in Confidences}
    \cup {Answer(p) : p \in IncompleteResults}
    \cup {Rejection(m) : m \in CapabilityErrors}

\* services/geminiService.ts lines 88-123: the parsed payload is returned as it
\* is, a text that does not parse is an error, the SDK's errors pass through
analyzeGeometry1(resp) ==
    IF resp.rejected # Null THEN Threw(Get(resp.rejected))
    ELSE IF ~resp.parses THEN Threw(<<"Could not parse the JSON response from the AI.">>)
    ELSE Returned(resp.payload)

\* services/geminiService.ts lines 319-359: the later snapshot also refuses a
\* payload that lacks boundingBox, geometryData or a numeric confidenceScore
analyzeGeometry2(resp) ==
    IF resp.rejected # Null THEN Threw(Get(resp.rejected))
    ELSE IF ~resp.parses THEN Threw(<<"Could not parse the JSON response from the AI.">>)
    ELSE IF /\ resp.payload.boundingBox # Null
            /\ resp.payload.geometryData # Null
            /\ resp.payload.confidenceScore # Null
         THEN Returned(resp.payload)
         ELSE Threw(<<"Could not parse the JSON response from the AI.">>)

analyzeGeometry(variant, resp) ==
    IF variant = 1 THEN analyzeGeometry1(resp) ELSE analyzeGeometry2(resp)

\* the outcomes of the analyzeGeometry the orchestrator of part_000 is written
\* against (the one whose payload carries geometryFound)
AnalyzeOutcomes == {analyzeGeometry(1, r) : r \in PerceptionResponses}

\* generateLatex: a LatexResult, or the parse failure, or an SDK error
GenerateOutcomes ==
    {Returned(c) : c \in Codes}
    \cup {Threw(<<"Could not parse the JSON response for LaTeX from the AI.">>)}
    \cup {Threw(m) : m \in CapabilityErrors}

\* fixLatex: a LatexResult, or its format failure, or an SDK error
FixOutcomes ==
    {Returned(c) : c \in Codes}
    \cup {Threw(<<"The AI failed to return a valid LaTeX document during the fix attempt.">>)}
    \cup {Threw(m) : m \in CapabilityErrors}

\* fileToBase64 followed by preprocessImage
PreprocessOutcomes ==
    {Returned("png"), Threw(<<"Failed to read file.">>),
     Threw(<<"Failed to load image from data.">>)}

CropOutcomes ==
    {Returned("png"), Threw(<<"Could not get canvas context for cropping">>)}

-----------------------------------------------------------------------------
\* A deterministic capability layer: every collaborator answers as a fixed
\* function of its arguments. fnIn holds the layer when the runs are driven by
\* one (fnIn = Null: every collaborator may answer anything at every call);
\* fnOut then keeps how the previous run on the selected image ended.

NextCode(c) == (c % NumCodes) + 1

AcceptingResponse ==
    [kind |-> "http", ok |-> TRUE, body |-> Body("json", "success", Null), message |-> <<>>]
RejectingResponses ==
    {[kind |-> "http", ok |-> TRUE, body |-> Body("json", "error", Null), message |-> <<>>],
     [kind |-> "network", ok |-> FALSE, body |-> Body("", "", Null),
      message |-> <<"Failed to fetch">>]}

Stubs ==
    {[preprocess |-> p, analyze |-> a, crop |-> c, generate |-> g,
      accepts |-> acc, rejection |-> rj, fix |-> fx] :
        p \in {Returned("png"), Threw(<<"Failed to read file.">>)},
        a \in {Answer(NotFoundResult), Unparseable,
               Answer(FoundResult(Box(0, 0, 1, 1), 5))},
        c \in CropOutcomes,
        g \in {Returned(k) : k \in Codes}
               \cup {Threw(<<"Could not parse the JSON response for LaTeX from the AI.">>)},
        acc \in SUBSET Codes,
        rj \in RejectingResponses,
        fx \in {[k \in Codes |-> Returned(NextCode(k))],
                [k \in Codes |-> Returned(k)],
                [k \in Codes |-> Threw(<<"The AI failed to return a valid LaTeX document during the fix attempt.">>)]}}

Stubbed == fnIn # Null

PreprocessAnswers == IF Stubbed THEN {Get(fnIn).preprocess} ELSE PreprocessOutcomes
AnalyzeAnswers ==
    IF Stubbed THEN {analyzeGeometry(1, Get(fnIn).analyze)} ELSE AnalyzeOutcomes
CropAnswers == IF Stubbed THEN {Get(fnIn).crop} ELSE CropOutcomes
GenerateAnswers == IF Stubbed THEN {Get(fnIn).generate} ELSE GenerateOutcomes
VerifyAnswers(code) ==
    IF Stubbed
    THEN {IF code \in Get(fnIn).accepts THEN AcceptingResponse ELSE Get(fnIn).rejection}
    ELSE CompilerResponses
\* a corrector whose answer is not determined by its arguments
FixAnswers_Any(code) == FixOutcomes

FixAnswers(code) == IF Stubbed THEN {Get(fnIn).fix[code]} ELSE FixOutcomes

\* how a run ended, as the page shows it
Terminal == [step |-> step, error |-> error, latexResult |-> latexResult]

-----------------------------------------------------------------------------
\* Orchestrator: handleFileSelect / handleStartAnalysis

MAX_CORRECTION_ATTEMPTS == 2

\* the history counters stop counting at CallCap
CallCap == 4

NoCalls == [analyze |-> 0, validate |-> 0, crop |-> 0,
            generate |-> 0, verify |-> 0, fix |-> 0, warn |-> 0]
Bump(c, k) == [c EXCEPT ![k] = Min(@ + 1, CallCap)]

\* line 337 (the older snapshots test ANALYZING and VERIFYING only)
isApiProcessing_TwoSteps == step \in {"ANALYZING", "VERIFYING"}

isApiProcessing == step \in {"ANALYZING", "GENERATING", "VERIFYING", "CORRECTING"}
isProcessing == isApiProcessing \/ isPreprocessing

FreshLocals ==
    /\ img' = Null
    /\ analysis' = Null
    /\ validatedBox' = Null
    /\ initialResult' = Null
    /\ currentLatexCode' = 0
    /\ verificationResult' = Null
    /\ attempt' = 0

FreshHistory ==
    /\ calls' = NoCalls
    /\ failedVerifs' = 0
    /\ lastVerify' = "none"
    /\ submitted' = 0
    /\ lastOutput' = 0
    /\ fixArgs' = Null
    /\ cropBox' = Null
    /\ genArg' = Null

\* the state of a freshly mounted App, no handler running
Mounted ==
    /\ step = "IDLE"
    /\ error = Null
    /\ isPreprocessing = FALSE
    /\ analysisResult = Null
    /\ latexResult = Null
    /\ croppedImage = Null
    /\ originalFile = Null
    /\ pc = "idle"
    /\ img = Null
    /\ analysis = Null
    /\ validatedBox = Null
    /\ initialResult = Null
    /\ currentLatexCode = 0
    /\ verificationResult = Null
    /\ attempt = 0
    /\ calls = NoCalls
    /\ failedVerifs = 0
    /\ lastVerify = "none"
    /\ submitted = 0
    /\ lastOutput = 0
    /\ fixArgs = Null
    /\ cropBox = Null
    /\ genArg = Null

Init ==
    /\ Mounted
    /\ compilerVariant \in {1, 2}
    /\ errorVariant \in {1, 2}
    /\ fnIn = Null
    /\ fnOut = Null

\* the catch block of handleStartAnalysis (lines 329-334)
Fail_NoMessage(msg) ==
    /\ isPreprocessing' = FALSE
    /\ error' = Null
    /\ step' = "ERROR"
    /\ pc' = "idle"
    /\ UNCHANGED <<latexResult, originalFile>>

Fail_StillPreprocessing(msg) ==
    /\ error' = Some(getFriendlyErrorMessage(errorVariant, msg))
    /\ step' = "ERROR"
    /\ pc' = "idle"
    /\ UNCHANGED <<isPreprocessing, latexResult, originalFile>>

Fail(msg) ==
    /\ isPreprocessing' = FALSE
    /\ error' = Some(getFriendlyErrorMessage(errorVariant, msg))
    /\ step' = "ERROR"
    /\ pc' = "idle"
    /\ UNCHANGED <<latexResult, originalFile>>

\* lines 251-258 without the resets of lines 253-257
handleFileSelect_OnlySetsFile ==
    /\ ~isProcessing
    /\ \E f \in Files : originalFile' = Some(f)
    /\ UNCHANGED <<step, error, isPreprocessing, analysisResult, latexResult,
                   croppedImage, localVars, buildVars, histVars, fnVars>>

\* lines 251-258; the uploader is disabled while isProcessing. No handler runs
\* then: the locals of the last run are out of scope and its history is dropped.
handleFileSelect ==
    /\ ~isProcessing
    /\ \E f \in Files : originalFile' = Some(f)
    /\ step' = "READY"
    /\ error' = Null
    /\ analysisResult' = Null
    /\ latexResult' = Null
    /\ croppedImage' = Null
    /\ pc' = "idle"
    /\ FreshLocals
    /\ FreshHistory
    /\ fnOut' = Null
    /\ UNCHANGED <<isPreprocessing, buildVars, fnIn>>

\* lines 260-272 without the resets of lines 263-266
StartAnalysis_KeepsResults ==
    /\ ~isProcessing
    /\ originalFile # Null
    /\ isPreprocessing' = TRUE
    /\ step' = "READY"
    /\ pc' = "preprocess"
    /\ FreshLocals
    /\ FreshHistory
    /\ fnOut' = IF Stubbed /\ step \in {"DONE", "ERROR"} THEN Some(Terminal) ELSE fnOut
    /\ UNCHANGED <<error, analysisResult, latexResult, croppedImage, originalFile,
                   buildVars, fnIn>>

\* lines 260-272: up to the awaits of fileToBase64 and preprocessImage; the
\* button is rendered when a file is selected and disabled while isProcessing
StartAnalysis ==
    /\ ~isProcessing
    /\ originalFile # Null
    /\ error' = Null
    /\ analysisResult' = Null
    /\ latexResult' = Null
    /\ croppedImage' = Null
    /\ isPreprocessing' = TRUE
    /\ step' = "READY"
    /\ pc' = "preprocess"
    /\ FreshLocals
    /\ FreshHistory
    /\ fnOut' = IF Stubbed /\ step \in {"DONE", "ERROR"} THEN Some(Terminal) ELSE fnOut
    /\ UNCHANGED <<originalFile, buildVars, fnIn>>

\* lines 272-276: preprocessing answered
PreprocessReturn ==
    /\ pc = "preprocess"
    /\ \E r \in PreprocessAnswers :
        IF r.tag = "throw"
        THEN /\ Fail(r.message)
             /\ UNCHANGED <<img, calls>>
        ELSE /\ img' = Some(ImageSize(Get(originalFile)))
             /\ isPreprocessing' = FALSE
             /\ step' = "ANALYZING"
             /\ pc' = "analyze"
             /\ calls' = Bump(calls, "analyze")
             /\ UNCHANGED <<error, latexResult, originalFile>>
    /\ UNCHANGED <<analysisResult, croppedImage, analysis, validatedBox, initialResult,
                   currentLatexCode, verificationResult, attempt, buildVars,
                   failedVerifs, lastVerify, submitted, lastOutput, fixArgs, cropBox, genArg, fnVars>>

\* lines 288-290: a low confidence is written to the console, nothing else
LowConfidence(a) == a.confidenceScore # Null /\ Get(a.confidenceScore) < 7

\* line 278: the branch on the tag of the outcome
GeometryMissing_Never(a) == FALSE

GeometryMissing_OrLowConfidence(a) == ~a.geometryFound \/ LowConfidence(a)

GeometryMissing(a) == ~a.geometryFound

\* line 284: analysis.boundingBox is read and handed to the validator
ValidateCall(a, image) ==
    IF a.boundingBox = Null
    THEN Threw(<<"Cannot read properties of undefined (reading 'x')">>)
    ELSE getValidatedBoundingBox(Get(a.boundingBox), image.w, image.h)

\* lines 276-284: analyzeGeometry answered
AnalyzeReturn ==
    /\ pc = "analyze"
    /\ \E r \in AnalyzeAnswers :
        IF r.tag = "throw"
        THEN /\ Fail(r.message)
             /\ UNCHANGED <<analysis, analysisResult, calls>>
        ELSE /\ analysis' = Some(r.value)
             /\ IF GeometryMissing(r.value)
                THEN /\ Fail(<<"No geometric figure could be identified in the image. Please try a clearer image.">>)
                     /\ UNCHANGED <<analysisResult, calls>>
                ELSE /\ analysisResult' = Some(r.value)
                     /\ pc' = "validate"
                     /\ calls' = Bump(calls, "validate")
                     /\ UNCHANGED <<step, error, isPreprocessing, latexResult, originalFile>>
    /\ UNCHANGED <<croppedImage, img, validatedBox, initialResult, currentLatexCode,
                   verificationResult, attempt, buildVars, failedVerifs, lastVerify,
                   submitted, lastOutput, fixArgs, cropBox, genArg, fnVars>>

\* lines 284-285: getValidatedBoundingBox answered
ValidateReturn ==
    /\ pc = "validate"
    /\ LET r == ValidateCall(Get(analysis), Get(img))
       IN IF r.tag = "throw"
          THEN /\ Fail(r.message)
               /\ UNCHANGED <<validatedBox, calls, cropBox>>
          ELSE /\ validatedBox' = Some(r.value)
               /\ pc' = "crop"
               /\ calls' = Bump(calls, "crop")
               /\ cropBox' = Some(r.value)
               /\ UNCHANGED <<step, error, isPreprocessing, latexResult, originalFile>>
    /\ UNCHANGED <<analysisResult, croppedImage, img, analysis, initialResult,
                   currentLatexCode, verificationResult, attempt, buildVars,
                   failedVerifs, lastVerify, submitted, lastOutput, fixArgs, genArg, fnVars>>

\* line 298: what generateLatex is handed
GeneratorInput(a) == a.geometryData

\* line 297: the step shown while generateLatex is awaited
StepAfterCrop_Verifying == "VERIFYING"

StepAfterCrop == "GENERATING"

\* lines 285-298: cropImage answered; the correction loop's locals are set up
CropReturn ==
    /\ pc = "crop"
    /\ \E r \in CropAnswers :
        IF r.tag = "throw"
        THEN /\ Fail(r.message)
             /\ UNCHANGED <<croppedImage, calls, genArg>>
        ELSE /\ croppedImage' = Some([file |-> Get(originalFile), box |-> Get(validatedBox)])
             /\ step' = StepAfterCrop
             /\ pc' = "generate"
             /\ calls' = Bump(IF LowConfidence(Get(analysis))
                              THEN Bump(calls, "warn") ELSE calls, "generate")
             /\ genArg' = Some(GeneratorInput(Get(analysis)))
             /\ UNCHANGED <<error, isPreprocessing, latexResult, originalFile>>
    /\ currentLatexCode' = 0
    /\ verificationResult' = Null
    /\ UNCHANGED <<analysisResult, img, analysis, validatedBox, initialResult, attempt,
                   buildVars, failedVerifs, lastVerify, submitted, lastOutput, fixArgs,
                   cropBox, fnVars>>

\* line 301: the loop condition
LoopContinues(a) == a <= MAX_CORRECTION_ATTEMPTS

\* line 301: attempt++
NextAttempt_Same(a) == a

NextAttempt(a) == a + 1

\* line 313: the attempt after which no correction is tried
IsLastAttempt_Never(a) == FALSE

IsLastAttempt(a) == a = MAX_CORRECTION_ATTEMPTS

\* lines 308-311: a verifier that throws is turned into a failed verdict
CatchVerifyError_NoLog(msg) == Verdict(FALSE, Null)

CatchVerifyError(msg) ==
    Verdict(FALSE, Some(<<"The LaTeX verification service could not be reached. Error: ">>
                        \o getFriendlyErrorMessage(errorVariant, msg)))

\* lines 314-315: the message of the error thrown when the attempts are used up
ExhaustedMessage(vr) ==
    <<"The AI failed to produce compilable LaTeX code after 2 attempts.">>
    \o (IF Truthy(vr.log)
        THEN <<"\n\n--- Final Compilation Log ---\n">> \o Get(vr.log)
        ELSE <<>>)

\* line 319: the log handed to the corrector
LogForCorrector_Unknown(vr) == <<"Unknown compilation error.">>

LogForCorrector(vr) ==
    IF Truthy(vr.log) THEN Get(vr.log) ELSE <<"Unknown compilation error.">>

\* line 327: the artifact stored as the result
ResultToPublish_Initial(initial, current) == [latexCode |-> initial]

ResultToPublish(initial, current) == [latexCode |-> current]

\* lines 298-304: generateLatex answered; first turn of the loop
GenerateReturn ==
    /\ pc = "generate"
    /\ \E r \in GenerateAnswers :
        IF r.tag = "throw"
        THEN /\ Fail(r.message)
             /\ UNCHANGED <<initialResult, currentLatexCode, attempt, calls, submitted,
                            lastOutput>>
        ELSE /\ initialResult' = Some(r.value)
             /\ currentLatexCode' = r.value
             /\ attempt' = 0
             /\ lastOutput' = r.value
             /\ step' = "VERIFYING"
             /\ pc' = "verify"
             /\ calls' = Bump(calls, "verify")
             /\ submitted' = r.value
             /\ UNCHANGED <<error, isPreprocessing, latexResult, originalFile>>
    /\ UNCHANGED <<analysisResult, croppedImage, img, analysis, validatedBox,
                   verificationResult, buildVars, failedVerifs, lastVerify, fixArgs,
                   cropBox, genArg, fnVars>>

\* lines 304-319 and 323-328: verifyLatex answered
VerifyReturn ==
    /\ pc = "verify"
    /\ \E resp \in VerifyAnswers(submitted) :
        LET out == verifyLatex(compilerVariant, resp)
            vr == IF out.tag = "return" THEN out.value ELSE CatchVerifyError(out.message)
        IN /\ verificationResult' = Some(vr)
           /\ lastVerify' = IF out.tag = "throw" THEN "threw"
                            ELSE IF vr.success THEN "compiled" ELSE "failed"
           /\ IF vr.success
              THEN /\ latexResult' =
                        Some(ResultToPublish(Get(initialResult), currentLatexCode))
                   /\ step' = "DONE"
                   /\ pc' = "idle"
                   /\ UNCHANGED <<error, isPreprocessing, originalFile, calls,
                                  failedVerifs, fixArgs>>
              ELSE /\ failedVerifs' = Min(failedVerifs + 1, CallCap)
                   /\ IF IsLastAttempt(attempt)
                      THEN /\ Fail(ExhaustedMessage(vr))
                           /\ UNCHANGED <<calls, fixArgs>>
                      ELSE /\ step' = "CORRECTING"
                           /\ pc' = "fix"
                           /\ calls' = Bump(calls, "fix")
                           /\ fixArgs' = Some([code |-> currentLatexCode,
                                               log |-> LogForCorrector(vr)])
                           /\ UNCHANGED <<error, isPreprocessing, latexResult,
                                          originalFile>>
    /\ UNCHANGED <<analysisResult, croppedImage, img, analysis, validatedBox,
                   initialResult, currentLatexCode, attempt, buildVars, submitted,
                   lastOutput, cropBox, genArg, fnVars>>

\* lines 319-321, 301-304 and 323-325: fixLatex answered; next turn of the loop
FixReturn ==
    /\ pc = "fix"
    /\ \E r \in FixAnswers(currentLatexCode) :
        IF r.tag = "throw"
        THEN /\ Fail(r.message)
             /\ UNCHANGED <<currentLatexCode, attempt, calls, submitted, lastOutput>>
        ELSE /\ currentLatexCode' = r.value
             /\ attempt' = NextAttempt(attempt)
             /\ lastOutput' = r.value
             /\ IF LoopContinues(NextAttempt(attempt))
                THEN /\ step' = "VERIFYING"
                     /\ pc' = "verify"
                     /\ calls' = Bump(calls, "verify")
                     /\ submitted' = r.value
                     /\ UNCHANGED <<error, isPreprocessing, latexResult, originalFile>>
                ELSE /\ Fail(<<"Failed to produce compilable LaTeX code after multiple correction attempts.">>)
                     /\ UNCHANGED <<calls, submitted>>
    /\ fixArgs' = Null
    /\ UNCHANGED <<analysisResult, croppedImage, img, analysis, validatedBox,
                   initialResult, verificationResult, buildVars, failedVerifs,
                   lastVerify, cropBox, genArg, fnVars>>

Next ==
    \/ handleFileSelect
    \/ StartAnalysis
    \/ PreprocessReturn
    \/ AnalyzeReturn
    \/ ValidateReturn
    \/ CropReturn
    \/ GenerateReturn
    \/ VerifyReturn
    \/ FixReturn

Spec == Init /\ [][Next]_vars

\* The awaits of handleStartAnalysis that wait for the network: generateContent
\* (geminiService.ts lines 104-112, 167, 218) and fetch (latexCompilerService.ts
\* lines 27-35) are awaited as they are, with no timer and no abort signal
NetworkWaits == {"analyze", "generate", "verify", "fix"}

\* The resumptions no collaborator is needed for: FileReader and Image fire
\* onload or onerror, so the awaits on fileToBase64, preprocessImage, loadImage
\* (getValidatedBoundingBox) and cropImage are resumed by the browser
LocalReturn == PreprocessReturn \/ ValidateReturn \/ CropReturn

\* The resumptions that take an answer, or an error, from the network
NetworkReturn == AnalyzeReturn \/ GenerateReturn \/ VerifyReturn \/ FixReturn

\* Only what the browser guarantees: nothing makes the network awaits resume.
\* (At most one resumption is enabled at a time, so fairness for the disjunction
\* is fairness for each.)
SpecLocalProgress == Init /\ [][Next]_vars /\ WF_vars(LocalReturn)

\* Assuming in addition that every external call eventually returns or throws.
\* Which snapshot of verifyLatex and of getFriendlyErrorMessage is linked changes
\* the texts of logs and messages only, so one build is taken.
InitResponsive == Init /\ compilerVariant = 1 /\ errorVariant = 1

SpecResponsive ==
    InitResponsive /\ [][Next]_vars /\ WF_vars(LocalReturn) /\ WF_vars(NetworkReturn)

-----------------------------------------------------------------------------
\* src/App.tsx: the orchestrator snapshot whose upload handler runs the pipeline

isApiProcessingUpload == step \in {"ANALYZING", "VERIFYING"}

\* the catch block of handleImageUpload (lines 100-117): the raw message is shown
FailUpload(msg) ==
    /\ isPreprocessing' = FALSE
    /\ error' = Some(msg)
    /\ step' = "ERROR"
    /\ pc' = "idle"
    /\ UNCHANGED <<latexResult, originalFile>>

\* lines 46-71; the uploader is disabled while isApiProcessing || isPreprocessing
handleImageUpload ==
    /\ ~(isApiProcessingUpload \/ isPreprocessing)
    /\ pc = "idle"
    /\ \E f \in Files : originalFile' = Some(f)
    /\ step' = "READY"
    /\ error' = Null
    /\ analysisResult' = Null
    /\ latexResult' = Null
    /\ croppedImage' = Null
    /\ isPreprocessing' = TRUE
    /\ pc' = "upload_preprocess"
    /\ FreshLocals
    /\ FreshHistory
    /\ UNCHANGED <<buildVars, fnVars>>

\* lines 70-75
UploadPreprocessReturn ==
    /\ pc = "upload_preprocess"
    /\ \E r \in PreprocessOutcomes :
        IF r.tag = "throw"
        THEN /\ FailUpload(r.message)
             /\ UNCHANGED <<img, calls>>
        ELSE /\ img' = Some(ImageSize(Get(originalFile)))
             /\ isPreprocessing' = FALSE
             /\ step' = "ANALYZING"
             /\ pc' = "upload_analyze"
             /\ calls' = Bump(calls, "analyze")
             /\ UNCHANGED <<error, latexResult, originalFile>>
    /\ UNCHANGED <<analysisResult, croppedImage, analysis, validatedBox, initialResult,
                   currentLatexCode, verificationResult, attempt, buildVars,
                   failedVerifs, lastVerify, submitted, lastOutput, fixArgs, cropBox,
                   genArg, fnVars>>

\* lines 75-84: cropImage is handed analysis.boundingBox as the capability gave it
UploadAnalyzeReturn ==
    /\ pc = "upload_analyze"
    /\ \E r \in AnalyzeOutcomes :
        IF r.tag = "throw"
        THEN /\ FailUpload(r.message)
             /\ UNCHANGED <<analysis, analysisResult, calls, cropBox>>
        ELSE /\ analysis' = Some(r.value)
             /\ IF GeometryMissing(r.value)
                THEN /\ FailUpload(<<"No geometric figure could be identified in the image. Please try a clearer image.">>)
                     /\ UNCHANGED <<analysisResult, calls, cropBox>>
                ELSE /\ analysisResult' = Some(r.value)
                     /\ pc' = "upload_crop"
                     /\ calls' = Bump(calls, "crop")
                     /\ cropBox' = r.value.boundingBox
                     /\ UNCHANGED <<step, error, isPreprocessing, latexResult, originalFile>>
    /\ UNCHANGED <<croppedImage, img, validatedBox, initialResult, currentLatexCode,
                   verificationResult, attempt, buildVars, failedVerifs, lastVerify,
                   submitted, lastOutput, fixArgs, genArg, fnVars>>

\* lines 84-92
UploadCropReturn ==
    /\ pc = "upload_crop"
    /\ \E r \in CropOutcomes :
        IF r.tag = "throw"
        THEN /\ FailUpload(r.message)
             /\ UNCHANGED <<croppedImage, calls, genArg>>
        ELSE IF cropBox = Null
        THEN /\ FailUpload(<<"Cannot read properties of undefined (reading 'width')">>)
             /\ UNCHANGED <<croppedImage, calls, genArg>>
        ELSE /\ croppedImage' = Some([file |-> Get(originalFile), box |-> Get(cropBox)])
             /\ step' = "VERIFYING"
             /\ pc' = "upload_generate"
             /\ calls' = Bump(calls, "generate")
             /\ genArg' = Some(GeneratorInput(Get(analysis)))
             /\ UNCHANGED <<error, isPreprocessing, latexResult, originalFile>>
    /\ UNCHANGED <<analysisResult, img, analysis, validatedBox, initialResult,
                   currentLatexCode, verificationResult, attempt, buildVars,
                   failedVerifs, lastVerify, submitted, lastOutput, fixArgs, cropBox,
                   fnVars>>

\* lines 92-99: the generated artifact is stored and the step set to DONE
UploadGenerateReturn ==
    /\ pc = "upload_generate"
    /\ \E r \in GenerateOutcomes :
        IF r.tag = "throw"
        THEN /\ FailUpload(r.message)
             /\ UNCHANGED <<lastOutput>>
        ELSE /\ latexResult' = Some([latexCode |-> r.value])
             /\ lastOutput' = r.value
             /\ step' = "DONE"
             /\ pc' = "idle"
             /\ UNCHANGED <<error, isPreprocessing, originalFile>>
    /\ UNCHANGED <<analysisResult, croppedImage, img, analysis, validatedBox,
                   initialResult, currentLatexCode, verificationResult, attempt,
                   buildVars, calls, failedVerifs, lastVerify, submitted, fixArgs,
                   cropBox, genArg, fnVars>>

NextUpload ==
    \/ handleImageUpload
    \/ UploadPreprocessReturn
    \/ UploadAnalyzeReturn
    \/ UploadCropReturn
    \/ UploadGenerateReturn

SpecUpload == Init /\ [][NextUpload]_vars

-----------------------------------------------------------------------------
\* services/imageProcessing.ts: detectAndCropBorder (lines 88-171). The image is
\* given by what isRowDark and isColDark answer: rowDark[y + 1] for row y and
\* colDark[x + 1] for column x; height and width are the lengths.

FRAME_SCAN_TOLERANCE == 15
PADDING == 10

\* lines 98-110 and 126-138: the scan from index y upwards, count being the
\* non-dark indices seen in a row; 0 when the loop runs out
RECURSIVE ScanForward(_, _, _)
ScanForward(dark, y, count) ==
    IF y >= Len(dark) THEN 0
    ELSE LET c == IF dark[y + 1] THEN 0 ELSE count + 1
         IN IF c > FRAME_SCAN_TOLERANCE
            THEN y - FRAME_SCAN_TOLERANCE
            ELSE ScanForward(dark, y + 1, c)

\* lines 112-124 and 140-152: the scan from index y downwards; the length when
\* the loop runs out
RECURSIVE ScanBackward(_, _, _)
ScanBackward(dark, y, count) ==
    IF y < 0 THEN Len(dark)
    ELSE LET c == IF dark[y + 1] THEN 0 ELSE count + 1
         IN IF c > FRAME_SCAN_TOLERANCE
            THEN y + FRAME_SCAN_TOLERANCE
            ELSE ScanBackward(dark, y - 1, c)

\* lines 154-170 without the safety margin
detectAndCropBorder_NoPadding(rowDark, colDark) ==
    LET top == ScanForward(rowDark, 0, 0)
        bottom == ScanBackward(rowDark, Len(rowDark) - 1, 0)
        left == ScanForward(colDark, 0, 0)
        right == ScanBackward(colDark, Len(colDark) - 1, 0)
    IN Box(left, top, Max(1, right - left), Max(1, bottom - top))

detectAndCropBorder(rowDark, colDark) ==
    LET width == Len(colDark)
        height == Len(rowDark)
        top == ScanForward(rowDark, 0, 0)
        bottom == ScanBackward(rowDark, height - 1, 0)
        left == ScanForward(colDark, 0, 0)
        right == ScanBackward(colDark, width - 1, 0)
        paddedLeft == Max(0, left - PADDING)
        paddedTop == Max(0, top - PADDING)
        paddedRight == Min(width, right + PADDING)
        paddedBottom == Min(height, bottom + PADDING)
        croppedWidth == Max(1, paddedRight - paddedLeft)
        croppedHeight == Max(1, paddedBottom - paddedTop)
    IN Box(paddedLeft, paddedTop, croppedWidth, croppedHeight)

-----------------------------------------------------------------------------
\* components/StepDisplay.tsx: the progress indicator rendered for the step

\* lines 10-16: the ids of the stages, in the order shown
steps == <<"ANALYZING", "GENERATING", "VERIFYING", "CORRECTING", "DONE">>

\* line 19: findIndex, 0 (for -1) when the step is no stage
currentStepIndex(currentStep) ==
    IF \E i \in 1..Len(steps) : steps[i] = currentStep
    THEN CHOOSE i \in 1..Len(steps) : steps[i] = currentStep
    ELSE 0

\* line 39
isActive(currentStep, index) ==
    \/ currentStepIndex(currentStep) = index
    \/ steps[index] = "CORRECTING" /\ currentStep = "VERIFYING"

\* the stages drawn as active (lines 38-52); the error panel has no stages
ActiveStages(currentStep) ==
    IF currentStep = "ERROR" THEN {}
    ELSE {steps[i] : i \in {j \in 1..Len(steps) : isActive(currentStep, j)}}

-----------------------------------------------------------------------------
\* The pure functions on their own: Init draws the input, the action applies it

Coords == (-MaxCoord)..(MaxCoord + 1)
Sides == 1..MaxImg

BoxInputs ==
    {[box |-> Box(x, y, w, h), imgWidth |-> iw, imgHeight |-> ih] :
        x \in Coords, y \in Coords, w \in Coords, h \in Coords,
        iw \in Sides, ih \in Sides}
    \cup {[box |-> Box(10, 10, 100, 100), imgWidth |-> 200, imgHeight |-> 200],
          [box |-> Box(190, 190, 50, 50), imgWidth |-> 200, imgHeight |-> 200],
          [box |-> Box(-50, 10, 20, 20), imgWidth |-> 200, imgHeight |-> 200]}

InitBox ==
    /\ Mounted
    /\ compilerVariant = 1
    /\ errorVariant = 1
    /\ fnIn \in {Some(i) : i \in BoxInputs}
    /\ fnOut = Null

ApplyValidate ==
    /\ fnOut = Null
    /\ fnOut' = Some(getValidatedBoundingBox(Get(fnIn).box, Get(fnIn).imgWidth,
                                             Get(fnIn).imgHeight))
    /\ UNCHANGED <<orchVars, localVars, buildVars, histVars, fnIn>>

SpecBox == InitBox /\ [][ApplyValidate]_vars

\* lines 278-298 of handleStartAnalysis, the only lines that read the outcome of
\* analyzeGeometry: whether the run goes on, the box it validates and crops to,
\* and the figure it hands to generateLatex
AnalysisUse(a, image) ==
    [notFound |-> GeometryMissing(a),
     box |-> IF GeometryMissing(a) THEN Null ELSE Some(ValidateCall(a, image)),
     figure |-> IF GeometryMissing(a) THEN Null ELSE Some(GeneratorInput(a))]

\* confidence scores in tenths, the whole range
ConfidenceRange == 0..10

\* two outcomes that differ in the confidence score at most, for one image
ConfidencePairs ==
    {[first |-> p, second |-> [p EXCEPT !.confidenceScore = Some(c)],
      image |-> ImageSize(f)] :
        p \in {FoundResult(b, c0) : b \in PerceptionBoxes, c0 \in Confidences}
               \cup IncompleteResults,
        c \in ConfidenceRange, f \in Files}

InitConfidence ==
    /\ Mounted
    /\ compilerVariant = 1
    /\ errorVariant = 1
    /\ fnIn \in {Some(i) : i \in ConfidencePairs}
    /\ fnOut = Null

ApplyAnalysisUse ==
    /\ fnOut = Null
    /\ fnOut' = Some([first |-> AnalysisUse(Get(fnIn).first, Get(fnIn).image),
                      second |-> AnalysisUse(Get(fnIn).second, Get(fnIn).image)])
    /\ UNCHANGED <<orchVars, localVars, buildVars, histVars, fnIn>>

SpecConfidence == InitConfidence /\ [][ApplyAnalysisUse]_vars

\* analyzeGeometry on its own: either snapshot, on the responses of the runs and
\* on answers the schema admits as well (confidenceScore is any NUMBER, labels
\* and line ends are any STRING)
AnalyzeInputs ==
    {[variant |-> v, resp |-> r] :
        v \in {1, 2},
        r \in PerceptionResponses
               \cup {Answer([FoundResult(b, 9) EXCEPT !.geometryData = Some(g)]) :
                        b \in PerceptionBoxes,
                        g \in {DuplicateLabelFigure, DanglingLineFigure}}
               \cup {Answer(FoundResult(b, c)) : b \in PerceptionBoxes, c \in {-1, 12}}}

InitAnalyze ==
    /\ Mounted
    /\ compilerVariant = 1
    /\ errorVariant = 1
    /\ fnIn \in {Some(i) : i \in AnalyzeInputs}
    /\ fnOut = Null

ApplyAnalyze ==
    /\ fnOut = Null
    /\ fnOut' = Some(analyzeGeometry(Get(fnIn).variant, Get(fnIn).resp))
    /\ UNCHANGED <<orchVars, localVars, buildVars, histVars, fnIn>>

SpecAnalyze == InitAnalyze /\ [][ApplyAnalyze]_vars

\* runs on one image against a deterministic capability layer
InitRerun ==
    /\ Mounted
    /\ compilerVariant = 1
    /\ errorVariant \in {1, 2}
    /\ fnIn \in {Some(s) : s \in Stubs}
    /\ fnOut = Null

SpecRerun == InitRerun /\ [][Next]_vars

\* detectAndCropBorder on its own. The rows (columns) of an image are given as
\* stretches of dark and non-dark ones in turn: whether the first stretch is dark
\* and how long each stretch is (1, the tolerated gap, one more than that).
MaxStretches == 3

StretchLengths == {1, FRAME_SCAN_TOLERANCE, FRAME_SCAN_TOLERANCE + 1}

RECURSIVE SeqsOfLen(_, _)
SeqsOfLen(S, n) ==
    IF n = 0 THEN {<<>>}
    ELSE {Append(q, e) : q \in SeqsOfLen(S, n - 1), e \in S}

RECURSIVE Stretched(_, _)
Stretched(firstDark, lens) ==
    IF lens = <<>> THEN <<>>
    ELSE [i \in 1..Head(lens) |-> firstDark] \o Stretched(~firstDark, Tail(lens))

AxisPatterns(n) ==
    {Stretched(d, lens) : d \in BOOLEAN,
                          lens \in UNION {SeqsOfLen(StretchLengths, k) : k \in 1..n}}

BorderInputs ==
    {[rowDark |-> r, colDark |-> c] :
        r \in AxisPatterns(MaxStretches), c \in AxisPatterns(MaxStretches - 1)}

InitBorder ==
    /\ Mounted
    /\ compilerVariant = 1
    /\ errorVariant = 1
    /\ fnIn \in {Some(i) : i \in BorderInputs}
    /\ fnOut = Null

ApplyBorder ==
    /\ fnOut = Null
    /\ fnOut' = Some(detectAndCropBorder(Get(fnIn).rowDark, Get(fnIn).colDark))
    /\ UNCHANGED <<orchVars, localVars, buildVars, histVars, fnIn>>

SpecBorder == InitBorder /\ [][ApplyBorder]_vars

InitVerify ==
    /\ Mounted
    /\ compilerVariant \in {1, 2}
    /\ errorVariant = 1
    /\ fnIn \in {Some(r) : r \in CompilerResponses}
    /\ fnOut = Null

ApplyVerify ==
    /\ fnOut = Null
    /\ fnOut' = Some(verifyLatex(compilerVariant, Get(fnIn)))
    /\ UNCHANGED <<orchVars, localVars, buildVars, histVars, fnIn>>

SpecVerify == InitVerify /\ [][ApplyVerify]_vars

-----------------------------------------------------------------------------
\* Properties

\* C1: in one run of handleStartAnalysis the generation capability is called at
\* most 3 times (one generateLatex, at most two fixLatex) and verifyLatex at most
\* 3 times, whatever the verifier answers or throws; after the third verification
\* that did not succeed the run is in ERROR and no call is pending.
C1_BoundedAttempts ==
    /\ calls.generate <= 1
    /\ calls.fix <= MAX_CORRECTION_ATTEMPTS
    /\ calls.generate + calls.fix <= MAX_CORRECTION_ATTEMPTS + 1
    /\ calls.verify <= MAX_CORRECTION_ATTEMPTS + 1
    /\ failedVerifs <= MAX_CORRECTION_ATTEMPTS + 1
    /\ failedVerifs = MAX_CORRECTION_ATTEMPTS + 1 => (step = "ERROR" /\ pc = "idle")

C1_Witness ==
    /\ failedVerifs = 3
    /\ calls.generate = 1
    /\ calls.fix = 2
    /\ calls.verify = 3
    /\ lastVerify = "threw"
    /\ step = "ERROR"

\* C2: in every orchestrator variant the step becomes DONE only after the
\* verifier returned a successful verdict for the artifact published as result.
C2_DoneOnlyAfterCompiled ==
    step = "DONE" =>
        /\ calls.verify >= 1
        /\ lastVerify = "compiled"
        /\ latexResult = Some([latexCode |-> submitted])

\* C3: when the first k verifications (k in 0..2) fail and verification k+1
\* accepts, the run is DONE after exactly k corrector calls and latexResult is the
\* artifact submitted to the accepting verification: the newest output of the
\* generator or corrector, the initial generation only when k = 0.
C3_DonePublishesAcceptedArtifact ==
    step = "DONE" =>
        /\ lastVerify = "compiled"
        /\ failedVerifs \in 0..MAX_CORRECTION_ATTEMPTS
        /\ calls.fix = failedVerifs
        /\ calls.verify = failedVerifs + 1
        /\ latexResult = Some([latexCode |-> submitted])
        /\ submitted = lastOutput
        /\ (failedVerifs = 0 => submitted = Get(initialResult))

C3_Witness ==
    /\ step = "DONE"
    /\ failedVerifs = 2
    /\ lastVerify = "compiled"
    /\ Get(latexResult).latexCode # Get(initialResult)

\* C4: when all three verifications of a run return a failed verdict, the run ends
\* in ERROR and the error string contains the whole log of the third verdict.
C4_ErrorShowsFinalLog ==
    (step = "ERROR" /\ pc = "idle" /\ failedVerifs = 3 /\ lastVerify = "failed") =>
        LET log == Get(verificationResult).log
        IN log # Null => Contains(Get(error), Get(log))

C6_FailedOnlyOnCompilerRejection ==
    fnOut # Null =>
        LET resp == Get(fnIn)
            out == Get(fnOut)
            structured == /\ resp.kind = "http"
                          /\ resp.ok
                          /\ resp.body.type = "json"
                          /\ resp.body.status \in {"success", "error"}
        IN /\ (out.tag = "return" /\ ~out.value.success) =>
                    (structured /\ resp.body.status = "error")
           /\ ~structured => out.tag = "throw"

\* C7: when analyzeGeometry returns geometryFound = false the run ends in ERROR
\* with a message containing "no geometric figure", and validator, cropper,
\* generator, verifier and corrector are not called and nothing of a Found outcome
\* is stored.
C7_NotFoundEndsRun ==
    (analysis # Null /\ ~Get(analysis).geometryFound) =>
        /\ step = "ERROR"
        /\ pc = "idle"
        /\ error # Null
        /\ IncludesLower(Get(error), "no geometric figure")
        /\ calls.validate = 0
        /\ calls.crop = 0
        /\ calls.generate = 0
        /\ calls.verify = 0
        /\ calls.fix = 0
        /\ analysisResult = Null
        /\ croppedImage = Null
        /\ latexResult = Null

C7_Witness ==
    /\ analysis = Some(NotFoundResult)
    /\ calls.analyze = 1
    /\ step = "ERROR"
    /\ errorVariant = 2

\* C8: for every integer box and every image size, getValidatedBoundingBox throws
\* or returns a box with x >= 0, y >= 0, width > 0, height > 0, x + width <= W and
\* y + height <= H.
C8_ValidatedBoxInsideImage ==
    (fnOut # Null /\ Get(fnOut).tag = "return") =>
        LET b == Get(fnOut).value
        IN /\ b.x >= 0
           /\ b.y >= 0
           /\ b.width > 0
           /\ b.height > 0
           /\ b.x + b.width <= Get(fnIn).imgWidth
           /\ b.y + b.height <= Get(fnIn).imgHeight

C8_Witness ==
    /\ fnOut # Null
    /\ Get(fnOut).tag = "return"
    /\ Get(fnIn).box.x < 0
    /\ Get(fnIn).box.y + Get(fnIn).box.height > Get(fnIn).imgHeight
    /\ Get(fnOut).value # Get(fnIn).box

\* C9: a box that already lies inside the image is returned unchanged; a box with
\* in-range origin that overflows the right or bottom edge keeps x and y and gets
\* width W - x, height H - y ({190,190,50,50} on 200x200 becomes 10 x 10); the
\* validator maps its own output to itself.
C9_InsideUnchangedOverflowClamped ==
    fnOut # Null =>
        LET b == Get(fnIn).box
            W == Get(fnIn).imgWidth
            H == Get(fnIn).imgHeight
            out == Get(fnOut)
            positive == b.width > 0 /\ b.height > 0
            originIn == b.x >= 0 /\ b.x < W /\ b.y >= 0 /\ b.y < H
            inside == /\ positive
                      /\ b.x >= 0
                      /\ b.y >= 0
                      /\ b.x + b.width <= W
                      /\ b.y + b.height <= H
        IN /\ inside => out = Returned(b)
           /\ (positive /\ originIn) =>
                out = Returned(Box(b.x, b.y,
                                   IF b.x + b.width > W THEN W - b.x ELSE b.width,
                                   IF b.y + b.height > H THEN H - b.y ELSE b.height))
           /\ (b = Box(190, 190, 50, 50) /\ W = 200 /\ H = 200) =>
                out = Returned(Box(190, 190, 10, 10))
           /\ out.tag = "return" => getValidatedBoundingBox(out.value, W, H) = out

C9_Witness ==
    /\ fnIn = Some([box |-> Box(190, 190, 50, 50), imgWidth |-> 200, imgHeight |-> 200])
    /\ fnOut = Some(Returned(Box(190, 190, 10, 10)))

\* C10: a box reported by the perception capability that lies entirely outside the
\* image (x >= W, y >= H, x + width <= 0 or y + height <= 0) is never accepted:
\* the validator throws, the run ends in ERROR and cropImage is not called.
EntirelyOutside(b, W, H) ==
    \/ b.x >= W
    \/ b.y >= H
    \/ b.x + b.width <= 0
    \/ b.y + b.height <= 0

C10_OutsideBoxRejected ==
    (/\ analysis # Null
     /\ Get(analysis).geometryFound
     /\ Get(analysis).boundingBox # Null
     /\ EntirelyOutside(Get(Get(analysis).boundingBox), Get(img).w, Get(img).h)) =>
        /\ calls.crop = 0
        /\ croppedImage = Null
        /\ pc \in {"validate", "idle"}
        /\ pc = "idle" => step = "ERROR"

Incomplete(a) ==
    /\ a.geometryFound
    /\ a.boundingBox = Null \/ a.geometryData = Null \/ a.confidenceScore = Null

\* C12: perception data that is structurally invalid (a Found outcome with
\* boundingBox, geometryData or confidenceScore missing) never lets the run reach
\* GENERATING: generateLatex is not called in a run whose outcome is incomplete.
C12_IncompleteOutcomeNeverGenerates ==
    (analysis # Null /\ Incomplete(Get(analysis))) =>
        (calls.generate = 0 /\ step \notin {"GENERATING", "VERIFYING", "CORRECTING", "DONE"})

\* the labels of a figure are pairwise different and every line joins two of them
WellFormedFigure(g) ==
    LET labels == {g.vertices[i] : i \in 1..Len(g.vertices)}
    IN /\ Cardinality(labels) = Len(g.vertices)
       /\ \A l \in g.lines : l[1] \in labels /\ l[2] \in labels

\* C13: every Found outcome analyzeGeometry returns has a confidence within
\* [0, 1] (0..10 tenths), vertex labels that are unique, and lines whose from and
\* to both name a vertex of the figure.
C13_FoundOutcomeWellFormed ==
    (fnOut # Null /\ Get(fnOut).tag = "return" /\ Get(fnOut).value.geometryFound) =>
        LET a == Get(fnOut).value
        IN /\ a.confidenceScore # Null
           /\ Get(a.confidenceScore) \in 0..10
           /\ a.geometryData # Null
           /\ WellFormedFigure(Get(a.geometryData))

\* C14: at most one run is in flight. While handleStartAnalysis is suspended at
\* any of its awaits (from the run request until DONE or ERROR) isProcessing
\* holds, so the run button and the uploader are disabled: neither a second run
\* nor an image selection can be taken.
C14_OneRunInFlight ==
    pc # "idle" =>
        /\ isProcessing
        /\ ~ENABLED StartAnalysis
        /\ ~ENABLED handleFileSelect

\* a run is waiting for the corrector, a file is selected, both controls are off
C14_Witness ==
    /\ pc = "fix"
    /\ step = "CORRECTING"
    /\ originalFile # Null
    /\ ~ENABLED StartAnalysis
    /\ ~ENABLED handleFileSelect

\* the four displayed values are empty or were set by the handler that is
\* running (or has just ended): they agree with its locals and its calls
ValuesOfThisRun ==
    /\ error # Null => (step = "ERROR" /\ pc = "idle")
    /\ analysisResult # Null => (calls.validate = 1 /\ analysisResult = analysis)
    /\ croppedImage # Null =>
         /\ calls.generate = 1
         /\ croppedImage = Some([file |-> Get(originalFile), box |-> Get(validatedBox)])
    /\ latexResult # Null =>
         /\ step = "DONE"
         /\ lastVerify = "compiled"
         /\ Get(latexResult).latexCode = submitted

\* C15: when a run is started (also from DONE or ERROR) error, analysisResult,
\* latexResult and croppedImage are cleared before the first external call, and
\* in every later state each of them is empty or a value this run produced.
C15_NewRunClearsResults ==
    [][/\ (pc = "idle" /\ pc' = "preprocess") =>
            /\ error' = Null /\ analysisResult' = Null
            /\ latexResult' = Null /\ croppedImage' = Null
            /\ calls' = NoCalls
       /\ ValuesOfThisRun']_vars

\* a run started from DONE has cleared the results and waits for the analysis
C15_Witness ==
    /\ fnOut # Null
    /\ Get(fnOut).step = "DONE"
    /\ Get(fnOut).latexResult # Null
    /\ pc = "analyze"
    /\ latexResult = Null /\ analysisResult = Null /\ croppedImage = Null

C16_NoUnboundedWait ==
    \A w \in NetworkWaits : (pc = w) ~> (pc # w)

\* C17: if every external call eventually returns or throws, every requested
\* run eventually ends in DONE or in ERROR; the cycle of verifying and
\* correcting does not go on forever.
C17_RunTerminates ==
    (pc # "idle") ~> (pc = "idle" /\ step \in {"DONE", "ERROR"})

\* a run that went through both corrections has ended
C17_Witness ==
    /\ pc = "idle"
    /\ step \in {"DONE", "ERROR"}
    /\ calls.fix = MAX_CORRECTION_ATTEMPTS
    /\ calls.verify = MAX_CORRECTION_ATTEMPTS + 1

\* the state of the specified machine the page is in: READY shown while
\* isPreprocessing is the Preprocessing state
Phase == IF step = "READY" /\ isPreprocessing THEN "PREPROCESSING" ELSE step

\* the entry conditions C18 lists
EntriesAsSpecified ==
    /\ Phase' = "ANALYZING" => Phase = "PREPROCESSING"
    /\ Phase' = "GENERATING" => Phase = "ANALYZING"
    /\ Phase' = "VERIFYING" => Phase \in {"GENERATING", "CORRECTING"}
    /\ Phase' = "CORRECTING" => Phase = "VERIFYING"
    /\ Phase' = "DONE" => Phase = "VERIFYING"

\* C18 as stated: every change of step follows the specified machine, and
\* GENERATING and CORRECTING are left only to VERIFYING.
C18_OnlySpecifiedTransitions ==
    [][Phase' # Phase =>
          /\ EntriesAsSpecified
          /\ Phase \in {"GENERATING", "CORRECTING"} => Phase' = "VERIFYING"]_vars

\* C18, amended: ANALYZING is entered only from preprocessing, GENERATING only
\* from ANALYZING, VERIFYING only from GENERATING or CORRECTING, CORRECTING and
\* DONE only from VERIFYING; GENERATING and CORRECTING are left to VERIFYING or,
\* when generateLatex or fixLatex throws, to ERROR, with no call made.
C18_TransitionsWithErrorExits ==
    [][Phase' # Phase =>
          /\ EntriesAsSpecified
          /\ Phase \in {"GENERATING", "CORRECTING"} =>
               \/ Phase' = "VERIFYING"
               \/ Phase' = "ERROR" /\ pc' = "idle" /\ calls' = calls]_vars

\* GENERATING was left to ERROR: generateLatex threw
C18_Witness ==
    /\ step = "ERROR"
    /\ pc = "idle"
    /\ calls.generate = 1
    /\ calls.verify = 0
    /\ genArg # Null

\* the stage a resumption hands over to when its call succeeded
NextStage(p) ==
    CASE p = "preprocess" -> "analyze"
      [] p = "analyze" -> "validate"
      [] p = "validate" -> "crop"
      [] p = "crop" -> "generate"
      [] p = "generate" -> "verify"
      [] p = "fix" -> "verify"

\* C19: a failure of preprocessing, extraction, box validation, cropping,
\* generation or correction ends the run: a step taken at one of these awaits
\* that does not hand over to the next stage puts the page in ERROR with a
\* non-empty message, leaves no handler running and makes no further call (no
\* retry of the stage); and ERROR is never shown without a message.
C19_FailureEndsRunWithMessage ==
    [][/\ (pc \in {"preprocess", "analyze", "validate", "crop", "generate", "fix"}
           /\ pc' # NextStage(pc)) =>
            /\ step' = "ERROR"
            /\ pc' = "idle"
            /\ calls' = calls
       /\ step' = "ERROR" =>
            /\ pc' = "idle"
            /\ error' # Null
            /\ Get(error') # <<>>]_vars

\* the corrector failed after one rejected verification: ERROR with its message
C19_Witness ==
    /\ step = "ERROR"
    /\ pc = "idle"
    /\ calls.fix = 1
    /\ calls.verify = 1
    /\ error = Some(<<"The AI failed to return a valid LaTeX document during the fix attempt.">>)

\* C21: in every orchestrator variant cropImage is called only with the box
\* getValidatedBoundingBox returned in this run, never with the box as the
\* perception capability reported it.
C21_CropOnlyValidatedBox ==
    calls.crop > 0 =>
        /\ calls.validate > 0
        /\ validatedBox # Null
        /\ cropBox = validatedBox

\* C22: in every orchestrator variant, selecting an image only moves the page to
\* READY with the earlier outputs cleared: the step that selects a file starts no
\* handler, no preprocessing and no call, and while the page is READY and not
\* preprocessing nothing is awaited.
C22_SelectingStartsNothing ==
    [][/\ originalFile' # originalFile =>
            /\ step' = "READY"
            /\ ~isPreprocessing'
            /\ pc' = "idle"
            /\ calls' = NoCalls
            /\ analysisResult' = Null /\ latexResult' = Null /\ croppedImage' = Null
       /\ (step' = "READY" /\ ~isPreprocessing') => (pc' = "idle" /\ calls' = NoCalls)]_vars

\* C23: when a run has ended in DONE or ERROR the page is not stuck:
\* isPreprocessing is false and the step is no processing step, so a run on the
\* same image and the selection of an image are both enabled; and a run that is
\* requested then starts preprocessing.
C23_NotStuckAfterEnd ==
    /\ [](pc = "idle" /\ step \in {"DONE", "ERROR"} =>
            /\ ~isPreprocessing
            /\ ~isApiProcessing
            /\ ENABLED StartAnalysis
            /\ ENABLED handleFileSelect)
    /\ [][(step \in {"DONE", "ERROR"} /\ pc' # "idle") =>
            (pc' = "preprocess" /\ isPreprocessing' /\ step' = "READY"
             /\ originalFile' = originalFile)]_vars

\* a run requested after a run that ended in ERROR is preprocessing
C23_Witness ==
    /\ fnOut # Null
    /\ Get(fnOut).step = "ERROR"
    /\ Get(fnOut).error # Null
    /\ pc = "preprocess"
    /\ isPreprocessing
    /\ error = Null

C25_OneActiveStage ==
    step \in {"ANALYZING", "GENERATING", "VERIFYING", "CORRECTING", "DONE"} =>
        ActiveStages(step) = {step}

\* the indices (from 0) that lie in a stretch of more than FRAME_SCAN_TOLERANCE
\* consecutive non-dark ones
InLongStretch(dark) ==
    {i \in 0..(Len(dark) - 1) :
        \E a \in 0..i :
            /\ a + FRAME_SCAN_TOLERANCE >= i
            /\ a + FRAME_SCAN_TOLERANCE <= Len(dark) - 1
            /\ \A k \in a..(a + FRAME_SCAN_TOLERANCE) : ~dark[k + 1]}

\* along one axis: the box [from, from + size) is inside 0 .. Len(dark), has a
\* size of 1 or more, holds every index of a long non-dark stretch, and starts
\* (ends) no more than PADDING before (after) the first (last) such index,
\* whatever shorter non-dark gaps lie nearer to the edge
AxisAsClaimed(dark, from, size) ==
    LET content == InLongStretch(dark)
    IN /\ from >= 0
       /\ size >= 1
       /\ from + size <= Len(dark)
       /\ \A i \in content : from <= i /\ i < from + size
       /\ content # {} =>
            /\ \A i \in content : from >= Max(0, i - PADDING) \/ \E j \in content : j < i
            /\ \A i \in content :
                 from + size <= Min(Len(dark), i + 1 + PADDING) \/ \E j \in content : j > i

\* C26: for every image of size 1 or more, detectAndCropBorder returns a box
\* inside the image with width and height of 1 or more that holds every row and
\* column of a stretch of more than 15 consecutive non-dark ones; non-dark gaps
\* of 15 or less at the frame do not move the box outwards.
C26_BorderBoxKeepsContent ==
    fnOut # Null =>
        /\ AxisAsClaimed(Get(fnIn).rowDark, Get(fnOut).y, Get(fnOut).height)
        /\ AxisAsClaimed(Get(fnIn).colDark, Get(fnOut).x, Get(fnOut).width)

\* rows: a non-dark gap of 15 at the edge, one dark row, content of 16 rows;
\* columns: a dark frame of 16, content of 16. The box starts PADDING before the
\* content on both axes, so the first rows of the gap are left out.
C26_Witness ==
    /\ fnOut # Null
    /\ Get(fnIn).rowDark = Stretched(FALSE, <<15, 1, 16>>)
    /\ Get(fnOut).y = 6 /\ Get(fnOut).height = 26
    /\ Get(fnIn).colDark = Stretched(TRUE, <<16, 16>>)
    /\ Get(fnOut).x = 6 /\ Get(fnOut).width = 26

\* C27: in every reachable state of the orchestrator an error message is present
\* exactly when the step is ERROR: the catch block sets both together, and the
\* file selection and the start of a run clear the message while they leave ERROR.
C27_ErrorIffErrorStep ==
    (error # Null) <=> (step = "ERROR")

\* preprocessing failed: the run ended in ERROR before any external call
C27_Witness ==
    /\ step = "ERROR"
    /\ error # Null
    /\ pc = "idle"
    /\ calls.analyze = 0
    /\ img = Null

\* C28: latexResult is set only by the successful end of a run, together with
\* DONE, and holds the code that compiled; in ERROR (and in every step before
\* DONE) latexResult is null.
C28_LatexResultOnlyWhenDone ==
    /\ latexResult # Null =>
         /\ step = "DONE"
         /\ lastVerify = "compiled"
         /\ Get(latexResult).latexCode = submitted
    /\ step = "ERROR" => latexResult = Null

\* a run whose generator and corrector produced code, none of which compiled
C28_Witness ==
    /\ step = "ERROR"
    /\ latexResult = Null
    /\ lastOutput # 0
    /\ calls.fix = MAX_CORRECTION_ATTEMPTS
    /\ failedVerifs = MAX_CORRECTION_ATTEMPTS + 1
    /\ lastVerify = "failed"

\* line 337
showResults ==
    step = "DONE" /\ analysisResult # Null /\ latexResult # Null /\ croppedImage # Null

\* C29: when the results are shown, the analysis, the cropped image and the code
\* come from one run, and that run worked on the file that is selected now: the
\* image was preprocessed from it, the analysis shown is the one whose box was
\* validated and cropped and whose figure went to the generator, and the code is
\* the one the last verification accepted.
C29_ResultsOfOneRunOnSelectedFile ==
    showResults =>
        /\ originalFile # Null
        /\ img = Some(ImageSize(Get(originalFile)))
        /\ analysisResult = analysis
        /\ validatedBox # Null
        /\ cropBox = validatedBox
        /\ croppedImage = Some([file |-> Get(originalFile), box |-> Get(validatedBox)])
        /\ genArg = Some(GeneratorInput(Get(analysisResult)))
        /\ Get(latexResult).latexCode = submitted
        /\ lastVerify = "compiled"
        /\ calls.analyze = 1 /\ calls.crop = 1 /\ calls.generate = 1

\* the results of a run on the second file, after one correction
C29_Witness ==
    /\ showResults
    /\ originalFile = Some(NumFiles)
    /\ Get(croppedImage).file = NumFiles
    /\ calls.fix = 1
    /\ pc = "idle"

\* the half-open interval [from, from + size) lies in [lo, hi)
Within(from, size, lo, hi) == lo <= from /\ from + size <= hi

\* C30: whenever getValidatedBoundingBox returns a box, the returned rectangle is
\* contained in the intersection of the input rectangle with the image, so it
\* covers no pixel outside the box it was given, also for a negative x or y.
C30_ReturnedBoxWithinInput ==
    (fnOut # Null /\ Get(fnOut).tag = "return") =>
        LET in == Get(fnIn).box
            out == Get(fnOut).value
        IN /\ Within(out.x, out.width, Max(0, in.x),
                     Min(in.x + in.width, Get(fnIn).imgWidth))
           /\ Within(out.y, out.height, Max(0, in.y),
                     Min(in.y + in.height, Get(fnIn).imgHeight))

====
